---- MODULE Spec2Model ----
(***************************************************************************)
(* The 'CodeChecker checkers' subcommand                                   *)
(* (analyzer/codechecker_analyzer/cmd/checkers.py, main).                  *)
(*                                                                         *)
(* One query is one run of main(args): mode dispatch (profile list,        *)
(* checker-config, guideline list, checker listing), the per-analyzer loop *)
(* of the checker listing, the warning rows and the final print.  The      *)
(* label store, the analyzers' catalogs and the checker state resolver     *)
(* live outside this file; they are modelled at the interface main() uses. *)
(***************************************************************************)
EXTENDS Integers, Sequences, FiniteSets, TLC

\* Longest list of values given to --guideline.
MaxGuidelineArgs == 1
\* Most warning flags reported by 'diagtool tree'.
MaxWarnings == 1

(***************************************************************************)
(* Small sequence helpers.                                                 *)
(***************************************************************************)
RECURSIVE Join(_, _)
\* sep.join(parts) of Python
Join(sep, parts) ==
    IF parts = <<>> THEN ""
    ELSE IF Len(parts) = 1 THEN parts[1]
    ELSE parts[1] \o sep \o Join(sep, Tail(parts))

RECURSIVE Flatten(_)
\* concatenation of a sequence of sequences (list.extend / append in a loop)
Flatten(ss) ==
    IF ss = <<>> THEN <<>> ELSE ss[1] \o Flatten(Tail(ss))

\* all sequences over S of length at most n
SeqsUpTo(S, n) == UNION {[1..k -> S] : k \in 0..n}

Range(s) == {s[k] : k \in DOMAIN s}

(***************************************************************************)
(* The environment of one invocation.                                      *)
(***************************************************************************)
\* analyzer_types.supported_analyzers, in iteration order
SupportedAnalyzers == <<"clangsa", "clang-tidy">>

\* the results check_supported_analyzers can give for working_analyzers
WorkingAnalyzerChoices ==
    {<<"clangsa", "clang-tidy">>, <<"clangsa">>, <<"clang-tidy">>, <<>>}

\* choices of --output
USER_FORMATS == {"rows", "table", "csv", "json"}

\* the checkers of the catalogs
Checkers == {"A", "B", "C"}

\* analyzer_class.get_analyzer_checkers: (name, description) in catalog order
get_analyzer_checkers(analyzer) ==
    IF analyzer = "clangsa"
    THEN << <<"A", "checker A">>, <<"B", "checker B">> >>
    ELSE << <<"C", "checker C">> >>

\* the label lists a checker may carry in config/labels
LabelChoices ==
    { << <<"profile", "default">>, <<"severity", "HIGH">> >>,
      << <<"profile", "strict">> >>,
      << <<"profile", "default">>, <<"sei-cert", "arr30-c">> >>,
      << <<"guideline", "sei-cert">>, <<"misc", "arr30-c">>,
         <<"sei-cert", "exp33-c">> >> }

\* the warning flags diagtool may report (already stripped of '-W')
WarningFlags == {"unused", "shadow"}

\* labels of the clang-diagnostic-* names
WarningLabels ==
    [w \in {"clang-diagnostic-" \o f : f \in WarningFlags} |->
        IF w = "clang-diagnostic-unused"
        THEN << <<"guideline", "sei-cert">>, <<"sei-cert", "arr30-c">> >>
        ELSE <<>>]

\* the values a caller passes to --profile
ProfileArgs == {"list", "strict", "nonexistent"}

\* the values a caller passes to --guideline
GuidelineValues == {"sei-cert", "arr30-c"}

\* attributes argparse leaves out of the namespace unless given
Flags == {"profile", "details", "checker_config", "only_enabled",
          "only_disabled", "show_warnings"}

\* the namespaces add_arguments_to_parser can produce
ArgSpace ==
    {a \in [present : SUBSET Flags,
            profile : ProfileArgs \cup {""},
            guideline : [is_none : BOOLEAN,
                         items : SeqsUpTo(GuidelineValues, MaxGuidelineArgs)],
            output_format : USER_FORMATS] :
        /\ ~({"only_enabled", "only_disabled"} \subseteq a.present)
        /\ ("profile" \in a.present) <=> (a.profile # "")
        /\ a.guideline.is_none => a.guideline.items = <<>>}

\* what analyzer_class.get_checker_config can return for one analyzer
ConfigChoices == {<<>>, << <<"Opt", "an option">> >>}

VARIABLES labels, working_analyzers, args, pc, i, header, rows, warnings,
          configs, analyzer_failures, printed, exit_code

vars == <<labels, working_analyzers, args, pc, i, header, rows, warnings,
          configs, analyzer_failures, printed, exit_code>>

(***************************************************************************)
(* Label store (context.checker_labels).                                   *)
(***************************************************************************)
\* cl.labels_of_checker: ordered (key, value) facts, empty when unknown
labels_of_checker(checker) ==
    IF checker \in DOMAIN labels THEN labels[checker] ELSE <<>>

\* cl.get_description: ordered (value, text) pairs of a well-known key
get_description(key) ==
    IF key = "profile"
    THEN << <<"default", "Default checkers">>,
            <<"strict", "Strict checkers">> >>
    ELSE IF key = "guideline"
    THEN << <<"sei-cert", "SEI CERT">>, <<"misra-c", "MISRA C">> >>
    ELSE <<>>

\* the keys of a description mapping
DescriptionKeys(key) == {p[1] : p \in Range(get_description(key))}

\* cl.occurring_values: the values present across all checkers for a key
occurring_values(key) ==
    {l[2] : l \in {f \in UNION {Range(labels[c]) : c \in DOMAIN labels} :
                       f[1] = key}}

\* cl.severity
severity(checker) ==
    LET sev == SelectSeq(labels_of_checker(checker),
                         LAMBDA l : l[1] = "severity")
    IN IF sev = <<>> THEN "UNSPECIFIED" ELSE sev[1][2]

\* sorted() over the rule identifiers in use
SortOrder == <<"arr30-c", "exp33-c", "sei-cert">>
sorted(S) == SelectSeq(SortOrder, LAMBDA x : x \in S)

(***************************************************************************)
(* Checker state resolver (config_handler.initialize_checkers / checks).  *)
(***************************************************************************)
HasLabel(checker, key, value) ==
    <<key, value>> \in Range(labels_of_checker(checker))

RECURSIVE ApplyDirectives(_, _, _)
\* directives applied in order, the last one touching a checker wins
ApplyDirectives(checker, state, directives) ==
    IF directives = <<>> THEN state
    ELSE LET d == directives[1]
         IN ApplyDirectives(checker,
                IF HasLabel(checker, d[1][1], d[1][2])
                THEN (IF d[2] THEN "enabled" ELSE "disabled")
                ELSE state,
                Tail(directives))

\* config_handler.initialize_checkers followed by config_handler.checks():
\* (checker, state, description) in catalog order
initialize_checkers(checkers, profile_checkers) ==
    [k \in 1..Len(checkers) |->
        <<checkers[k][1],
          ApplyDirectives(checkers[k][1],
              IF HasLabel(checkers[k][1], "profile", "default")
              THEN "enabled" ELSE "disabled",
              profile_checkers),
          checkers[k][2]>>]

(***************************************************************************)
(* Helpers nested in main().                                               *)
(***************************************************************************)
\* uglify: text.lower().replace(' ', '_') on the header names main() uses
uglify(text) ==
    CASE text = "Profile name" -> "profile_name"
      [] text = "Description" -> "description"
      [] text = "Option" -> "option"
      [] text = "Guideline" -> "guideline"
      [] text = "Rules" -> "rules"
      [] text = "Enabled" -> "enabled"
      [] text = "Name" -> "name"
      [] text = "Analyzer" -> "analyzer"
      [] text = "Severity" -> "severity"
      [] OTHER -> text

\* header = list(map(uglify, header)) for csv and json
NormalizeHeader(fmt, hdr) ==
    IF fmt \in {"csv", "json"}
    THEN [k \in 1..Len(hdr) |-> uglify(hdr[k])]
    ELSE hdr

RECURSIVE MatchLabels(_, _, _)
\* the for-loop of match_guideline
MatchLabels(lbls, choices, selected_guidelines) ==
    IF lbls = <<>> THEN FALSE
    ELSE IF /\ (lbls[1][1] = "guideline" \/ lbls[1][1] \in choices)
            /\ lbls[1][2] \in Range(selected_guidelines)
         THEN TRUE
         ELSE MatchLabels(Tail(lbls), choices, selected_guidelines)

\* match_guideline comparing the label's key, not its value, with the request
match_guideline_by_key(checker_name, selected_guidelines) ==
    \E l \in Range(labels_of_checker(checker_name)) :
        /\ l[1] = "guideline" \/ l[1] \in DescriptionKeys("guideline")
        /\ l[1] \in Range(selected_guidelines)
              \/ l[2] \in Range(selected_guidelines)

\* match_guideline without the 'or label in choices' alternative
match_guideline_label_only(checker_name, selected_guidelines) ==
    \E l \in Range(labels_of_checker(checker_name)) :
        /\ l[1] = "guideline"
        /\ l[2] \in Range(selected_guidelines)

match_guideline(checker_name, selected_guidelines) ==
    MatchLabels(labels_of_checker(checker_name),
                DescriptionKeys("guideline"), selected_guidelines)

RECURSIVE FirstKeys(_, _)
\* keys of a dict filled in label order: first occurrences, in order
FirstKeys(lbls, seen) ==
    IF lbls = <<>> THEN <<>>
    ELSE IF lbls[1][1] \in seen THEN FirstKeys(Tail(lbls), seen)
    ELSE <<lbls[1][1]>> \o FirstKeys(Tail(lbls), seen \cup {lbls[1][1]})

\* guideline_rules_for_checker: (guideline, rules) pairs of the defaultdict
guideline_rules_for_checker(checker) ==
    LET covered == SelectSeq(labels_of_checker(checker),
                       LAMBDA l : l[1] \in DescriptionKeys("guideline"))
        keys == FirstKeys(covered, {})
    IN [k \in 1..Len(keys) |->
          <<keys[k],
            LET mine == SelectSeq(covered, LAMBDA l : l[1] = keys[k])
            IN [j \in 1..Len(mine) |-> mine[j][2]]>>]

\* format_guideline
format_guideline(guideline) ==
    Join(" ", [k \in 1..Len(guideline) |->
                 "Related " \o guideline[k][1] \o " rules: "
                     \o Join(", ", guideline[k][2])])

\* the guideline cell of a detailed row
GuidelineCell(fmt, checker) ==
    IF fmt # "json"
    THEN [text |-> format_guideline(guideline_rules_for_checker(checker))]
    ELSE [dict |-> guideline_rules_for_checker(checker)]

(***************************************************************************)
(* Mode dispatch of main().                                                *)
(***************************************************************************)
IsProfileList(a) == "profile" \in a.present /\ a.profile = "list"

IsCheckerConfig(a) == "checker_config" \in a.present

\* the guideline list taken when no --guideline is given
IsGuidelineListWhenAbsent(a) == a.guideline.is_none

IsGuidelineList(a) == ~a.guideline.is_none /\ Len(a.guideline.items) = 0

\* twodim.to_str(format, header, rows) handed to print
ToStr(fmt, hdr, rws) == [to_str |-> <<fmt, hdr, rws>>]

(***************************************************************************)
(* Profile list.                                                           *)
(***************************************************************************)
ProfileListHeader(a) ==
    NormalizeHeader(a.output_format,
        IF "details" \in a.present
        THEN <<"Profile name", "Description">> ELSE <<"Profile name">>)

ProfileListRows(a) ==
    LET d == get_description("profile")
    IN IF "details" \in a.present
       THEN d
       ELSE [k \in 1..Len(d) |-> <<d[k][1]>>]

(***************************************************************************)
(* Checker-config listing.                                                 *)
(***************************************************************************)
CheckerConfigHeader(a) ==
    NormalizeHeader(a.output_format,
        IF "details" \in a.present
        THEN <<"Option", "Description">> ELSE <<"Option">>)

\* the rows one analyzer's options contribute
ConfigRows(a, analyzer, cfg) ==
    [k \in 1..Len(cfg) |->
        IF "details" \in a.present
        THEN <<Join(":", <<analyzer, cfg[k][1]>>), cfg[k][2]>>
        ELSE <<Join(":", <<analyzer, cfg[k][1]>>)>>]

\* rows of the whole loop over working_analyzers
CheckerConfigRows(a, analyzers, cfgs) ==
    Flatten([k \in 1..Len(analyzers) |->
                ConfigRows(a, analyzers[k], cfgs[analyzers[k]])])

\* analyzer_failures of the whole loop
ConfigFailures(analyzers, cfgs) ==
    SelectSeq(analyzers, LAMBDA an : cfgs[an] = <<>>)

\* the listing without its sys.exit(1)
CheckerConfigExitZero(failures) == 0

\* sys.exit(1) after the listing
CheckerConfigExit(failures) == IF failures # <<>> THEN 1 ELSE 0

(***************************************************************************)
(* Guideline list.                                                         *)
(***************************************************************************)
GuidelineListHeader(a) ==
    NormalizeHeader(a.output_format, <<"Guideline", "Rules">>)

GuidelineListRows(a) ==
    LET d == get_description("guideline")
    IN [k \in 1..Len(d) |->
          IF a.output_format = "json"
          THEN <<d[k][1], [list |-> sorted(occurring_values(d[k][1]))]>>
          ELSE <<d[k][1],
                 [text |-> Join(", ", sorted(occurring_values(d[k][1])))]>>]

\* what the guideline list prints
GuidelineListPrint(a, hdr, rws) ==
    IF a.output_format = "rows"
    THEN Flatten([k \in 1..Len(rws) |->
                    << [line |-> <<"Guideline: ", rws[k][1]>>],
                       [line |-> <<"Rules: ", rws[k][2]>>] >>])
    ELSE << ToStr(a.output_format, hdr, rws) >>

(***************************************************************************)
(* Checker listing.                                                        *)
(***************************************************************************)
CheckerListHeader(a) ==
    NormalizeHeader(a.output_format,
        IF "details" \in a.present
        THEN <<"Enabled", "Name", "Analyzer", "Severity", "Guideline",
               "Description">>
        ELSE <<"Name">>)

\* args.profile not in available_profiles
ProfileMissing(a) ==
    "profile" \in a.present /\ a.profile \notin DescriptionKeys("profile")

\* no directive handed to initialize_checkers
ProfileCheckersEmpty(a) == <<>>

\* profile_checkers handed to initialize_checkers
ProfileCheckers(a) ==
    IF "profile" \in a.present
    THEN << << <<"profile", a.profile>>, TRUE >> >>
    ELSE <<>>

\* the profile filter: continue when not enabled and a profile is given
ProfileFilterDrops(a, state) ==
    state # "enabled" /\ "profile" \in a.present

\* the filter without its elif branch
EnabledFilterDropsNoElif(a, state) ==
    state = "enabled" /\ "only_disabled" \in a.present

\* the only-enabled / only-disabled filter
EnabledFilterDrops(a, state) ==
    \/ state = "enabled" /\ "only_disabled" \in a.present
    \/ state # "enabled" /\ "only_enabled" \in a.present

\* the guideline filter
GuidelineFilterDrops(a, name) ==
    ~a.guideline.is_none /\ ~match_guideline(name, a.guideline.items)

\* the state column rendered as a marker in every format
RenderStateMarker(fmt, state) ==
    [str |-> IF state = "enabled" THEN "+" ELSE "-"]

\* the rendering of the state column
RenderState(fmt, state) ==
    IF fmt = "json"
    THEN [bool |-> state = "enabled"]
    ELSE [str |-> IF state = "enabled" THEN "+" ELSE "-"]

\* the row appended for a checker that passed the filters
CheckerRow(a, analyzer, checker, state, description) ==
    IF "details" \in a.present
    THEN <<RenderState(a.output_format, state), checker, analyzer,
           severity(checker), GuidelineCell(a.output_format, checker),
           description>>
    ELSE <<checker>>

\* one pass of the loop over config_handler.checks().items()
CheckRows(a, analyzer, check) ==
    IF \/ ProfileFilterDrops(a, check[2])
       \/ EnabledFilterDrops(a, check[2])
       \/ GuidelineFilterDrops(a, check[1])
    THEN <<>>
    ELSE << CheckerRow(a, analyzer, check[1], check[2], check[3]) >>

\* the rows one working analyzer contributes
AnalyzerRows(a, analyzer) ==
    LET checks == initialize_checkers(get_analyzer_checkers(analyzer),
                                      ProfileCheckers(a))
    IN Flatten([k \in 1..Len(checks) |-> CheckRows(a, analyzer, checks[k])])

\* the rows of the whole loop over working_analyzers
ListingCheckerRows(a, analyzers) ==
    Flatten([k \in 1..Len(analyzers) |-> AnalyzerRows(a, analyzers[k])])

\* the warning row without its state column
WarningRowShort(a, warning) ==
    IF "details" \in a.present
    THEN <<warning, "-", "MEDIUM",
           GuidelineCell(a.output_format, warning), "-">>
    ELSE <<warning>>

\* the row appended for a warning that passed the guideline filter
WarningRow(a, warning) ==
    IF "details" \in a.present
    THEN <<[str |-> ""], warning, "-", "MEDIUM",
           GuidelineCell(a.output_format, warning), "-">>
    ELSE <<warning>>

\* the rows of the loop over get_warnings()
WarningRows(a, ws) ==
    Flatten([k \in 1..Len(ws) |->
        LET warning == "clang-diagnostic-" \o ws[k]
        IN IF GuidelineFilterDrops(a, warning)
           THEN <<>>
           ELSE << WarningRow(a, warning) >>])

(***************************************************************************)
(* The state machine of one query.                                         *)
(***************************************************************************)
Init ==
    /\ labels \in {c @@ WarningLabels : c \in [Checkers -> LabelChoices]}
    /\ working_analyzers \in WorkingAnalyzerChoices
    /\ args \in ArgSpace
    /\ pc = "start"
    /\ i = 1
    /\ header = <<>>
    /\ rows = <<>>
    /\ warnings = <<>>
    /\ configs = <<>>
    /\ analyzer_failures = <<>>
    /\ printed = <<>>
    /\ exit_code = 0

\* check_available_analyzers: no analyzer works at all
NoAnalyzerAvailable ==
    /\ pc = "start"
    /\ working_analyzers = <<>>
    /\ pc' = "done"
    /\ exit_code' = 1
    /\ UNCHANGED <<labels, working_analyzers, args, i, header, rows,
                   warnings, configs, analyzer_failures, printed>>

\* --profile list
ListProfiles ==
    /\ pc = "start"
    /\ working_analyzers # <<>>
    /\ IsProfileList(args)
    /\ header' = ProfileListHeader(args)
    /\ rows' = ProfileListRows(args)
    /\ printed' = Append(printed, ToStr(args.output_format, header', rows'))
    /\ pc' = "done"
    /\ UNCHANGED <<labels, working_analyzers, args, i, warnings, configs,
                   analyzer_failures, exit_code>>

\* --checker-config
ListCheckerConfig ==
    /\ pc = "start"
    /\ working_analyzers # <<>>
    /\ ~IsProfileList(args)
    /\ IsCheckerConfig(args)
    /\ \E cfgs \in [Range(working_analyzers) -> ConfigChoices] :
          /\ configs' = cfgs
          /\ header' = CheckerConfigHeader(args)
          /\ rows' = CheckerConfigRows(args, working_analyzers, cfgs)
          /\ analyzer_failures' = ConfigFailures(working_analyzers, cfgs)
    /\ printed' = IF rows' # <<>>
                  THEN Append(printed,
                              ToStr(args.output_format, header', rows'))
                  ELSE printed
    /\ exit_code' = CheckerConfigExit(analyzer_failures')
    /\ pc' = "done"
    /\ UNCHANGED <<labels, working_analyzers, args, i, warnings>>

\* --guideline without values
ListGuidelines ==
    /\ pc = "start"
    /\ working_analyzers # <<>>
    /\ ~IsProfileList(args)
    /\ ~IsCheckerConfig(args)
    /\ IsGuidelineList(args)
    /\ header' = GuidelineListHeader(args)
    /\ rows' = GuidelineListRows(args)
    /\ printed' = printed \o GuidelineListPrint(args, header', rows')
    /\ pc' = "done"
    /\ UNCHANGED <<labels, working_analyzers, args, i, warnings, configs,
                   analyzer_failures, exit_code>>

\* the checker listing starts: header, rows = []
ListCheckers ==
    /\ pc = "start"
    /\ working_analyzers # <<>>
    /\ ~IsProfileList(args)
    /\ ~IsCheckerConfig(args)
    /\ ~IsGuidelineList(args)
    /\ header' = CheckerListHeader(args)
    /\ rows' = <<>>
    /\ i' = 1
    /\ pc' = "analyzers"
    /\ UNCHANGED <<labels, working_analyzers, args, warnings, configs,
                   analyzer_failures, printed, exit_code>>

\* one iteration of 'for analyzer in working_analyzers'
AnalyzerIteration ==
    /\ pc = "analyzers"
    /\ i <= Len(working_analyzers)
    /\ IF ProfileMissing(args)
       THEN /\ exit_code' = 1
            /\ pc' = "done"
            /\ UNCHANGED <<i, rows>>
       ELSE /\ rows' = rows \o AnalyzerRows(args, working_analyzers[i])
            /\ i' = i + 1
            /\ UNCHANGED <<pc, exit_code>>
    /\ UNCHANGED <<labels, working_analyzers, args, header, warnings,
                   configs, analyzer_failures, printed>>

\* the warning rows
ShowWarnings ==
    /\ pc = "analyzers"
    /\ i > Len(working_analyzers)
    /\ IF "show_warnings" \in args.present
       THEN \E ws \in SeqsUpTo(WarningFlags, MaxWarnings) :
               /\ warnings' = ws
               /\ rows' = rows \o WarningRows(args, ws)
       ELSE UNCHANGED <<warnings, rows>>
    /\ pc' = "print"
    /\ UNCHANGED <<labels, working_analyzers, args, i, header, configs,
                   analyzer_failures, printed, exit_code>>

\* if rows: print(twodim.to_str(...))
PrintRows ==
    /\ pc = "print"
    /\ printed' = IF rows # <<>>
                  THEN Append(printed,
                              ToStr(args.output_format, header, rows))
                  ELSE printed
    /\ pc' = "done"
    /\ UNCHANGED <<labels, working_analyzers, args, i, header, rows,
                   warnings, configs, analyzer_failures, exit_code>>

Next ==
    \/ NoAnalyzerAvailable
    \/ ListProfiles
    \/ ListCheckerConfig
    \/ ListGuidelines
    \/ ListCheckers
    \/ AnalyzerIteration
    \/ ShowWarnings
    \/ PrintRows

Spec == Init /\ [][Next]_vars

(***************************************************************************)
(* Vocabulary of the properties.                                           *)
(***************************************************************************)
Done == pc = "done"

\* the query is a checker listing that got past check_available_analyzers
CheckerListing ==
    /\ working_analyzers # <<>>
    /\ ~IsProfileList(args)
    /\ ~IsCheckerConfig(args)
    /\ ~IsGuidelineList(args)

\* the name column of a row of the checker listing
RowName(a, r) == IF "details" \in a.present THEN r[2] ELSE r[1]

NamesOf(a, rws) == [k \in 1..Len(rws) |-> RowName(a, rws[k])]

\* the state the resolver's contract gives a checker under the query
Enabled(a, checker) ==
    \/ HasLabel(checker, "profile", "default")
    \/ "profile" \in a.present /\ HasLabel(checker, "profile", a.profile)

\* the matching contract of the guideline index
Covers(name, S) ==
    \E f \in Range(labels_of_checker(name)) :
        /\ f[1] = "guideline" \/ f[1] \in DescriptionKeys("guideline")
        /\ f[2] \in S

\* the same query with the enabled/disabled switches replaced
WithSwitch(a, switch) ==
    [a EXCEPT !.present =
        (a.present \ {"only_enabled", "only_disabled"}) \cup switch]

\* the same query without a guideline selector
WithoutGuideline(a) ==
    [a EXCEPT !.guideline = [is_none |-> TRUE, items |-> <<>>]]

\* the rows main() hands out for a query in the current environment
QueryRows(a) ==
    IF working_analyzers = <<>> THEN <<>>
    ELSE IF IsProfileList(a) THEN ProfileListRows(a)
    ELSE IF IsCheckerConfig(a)
         THEN CheckerConfigRows(a, working_analyzers, configs)
    ELSE IF IsGuidelineList(a) THEN GuidelineListRows(a)
    ELSE IF ProfileMissing(a) THEN <<>>
    ELSE ListingCheckerRows(a, working_analyzers)
            \o (IF "show_warnings" \in a.present
                THEN WarningRows(a, warnings) ELSE <<>>)

\* the catalog of the scenario: A default and HIGH, B strict,
\* C default and the rule arr30-c of sei-cert
ScenarioLabels ==
    [c \in Checkers |->
        IF c = "A" THEN << <<"profile", "default">>, <<"severity", "HIGH">> >>
        ELSE IF c = "B" THEN << <<"profile", "strict">> >>
        ELSE << <<"profile", "default">>, <<"sei-cert", "arr30-c">> >>]

IsScenario ==
    /\ \A c \in Checkers : labels[c] = ScenarioLabels[c]
    /\ working_analyzers = SupportedAnalyzers

NoSwitch(a) == a.present \cap {"only_enabled", "only_disabled"} = {}

\* the names of catalog checkers among the rows of a checker listing
CheckerNames == Range(NamesOf(args, rows)) \cap Checkers

(***************************************************************************)
(* C1: a query that requests a profile name other than "list" which is not *)
(* a key of the profile descriptions ends with a non-zero exit code and    *)
(* prints nothing, whatever other selectors accompany it.                  *)
(***************************************************************************)
C1_UnknownProfileFails ==
    (Done /\ "profile" \in args.present /\ args.profile # "list"
          /\ args.profile \notin DescriptionKeys("profile"))
        => (exit_code # 0 /\ printed = <<>>)

(***************************************************************************)
(* C2 as claimed: with no profile requested and the other selectors fixed, *)
(* the rows returned with only-enabled and with only-disabled are disjoint *)
(* and their union is the rows returned with neither switch.               *)
(***************************************************************************)
C2_RowsPartition ==
    (Done /\ CheckerListing /\ "profile" \notin args.present
          /\ NoSwitch(args))
        => LET en == Range(QueryRows(WithSwitch(args, {"only_enabled"})))
               dis == Range(QueryRows(WithSwitch(args, {"only_disabled"})))
           IN /\ en \cap dis = {}
              /\ en \cup dis = Range(rows)

(***************************************************************************)
(* C2 amended: in a checker listing with no profile requested, the checker *)
(* rows (the rows of the analyzers' catalogs, not the warning rows) with   *)
(* only-enabled and with only-disabled are disjoint, their union is the    *)
(* checker rows with neither switch, only-enabled keeps exactly the        *)
(* checkers whose state is enabled and only-disabled exactly the others.   *)
(***************************************************************************)
C2_CheckerRowsPartition ==
    (Done /\ CheckerListing /\ "profile" \notin args.present)
        => LET en == ListingCheckerRows(WithSwitch(args, {"only_enabled"}),
                                        working_analyzers)
               dis == ListingCheckerRows(WithSwitch(args, {"only_disabled"}),
                                         working_analyzers)
               nei == ListingCheckerRows(WithSwitch(args, {}),
                                         working_analyzers)
               mine == ListingCheckerRows(args, working_analyzers)
           IN /\ SubSeq(rows, 1, Len(mine)) = mine
              /\ Range(en) \cap Range(dis) = {}
              /\ Range(en) \cup Range(dis) = Range(nei)
              /\ Range(NamesOf(args, en)) =
                    {n \in Range(NamesOf(args, nei)) : Enabled(args, n)}
              /\ Range(NamesOf(args, dis)) =
                    {n \in Range(NamesOf(args, nei)) : ~Enabled(args, n)}

C2_Witness ==
    /\ Done /\ CheckerListing /\ "profile" \notin args.present
    /\ "only_enabled" \in args.present
    /\ CheckerNames # {}
    /\ \E c \in Checkers : ~Enabled(args, c)
    /\ working_analyzers = SupportedAnalyzers

C4_GuidelineNameReturnsC ==
    (Done /\ IsScenario /\ CheckerListing /\ "profile" \notin args.present
          /\ NoSwitch(args) /\ args.guideline.items = <<"sei-cert">>)
        => CheckerNames = {"C"}

(***************************************************************************)
(* C4 amended: a checker whose only guideline-related fact names a rule    *)
(* under guideline G is returned when the requested set contains that rule *)
(* identifier, not when it contains only G: the scenario catalog queried   *)
(* with guideline=["arr30-c"] returns exactly {C}, and queried with        *)
(* guideline=["sei-cert"] returns no checker.                              *)
(***************************************************************************)
C4_RuleIdReturnsC ==
    (Done /\ IsScenario /\ CheckerListing /\ "profile" \notin args.present
          /\ NoSwitch(args))
        => /\ args.guideline.items = <<"arr30-c">> => CheckerNames = {"C"}
           /\ args.guideline.items = <<"sei-cert">> => CheckerNames = {}

C4_Witness ==
    /\ Done /\ IsScenario /\ CheckerListing /\ "profile" \notin args.present
    /\ NoSwitch(args)
    /\ args.guideline.items = <<"arr30-c">>
    /\ CheckerNames = {"C"}

(***************************************************************************)
(* C5 as claimed: the checker rows produced when the guideline selector is *)
(* present with an empty set are exactly the checker rows produced when no *)
(* guideline selector is given.                                            *)
(***************************************************************************)
C5_EmptyGuidelineIsIdentity ==
    (Done /\ working_analyzers # <<>> /\ ~IsProfileList(args)
          /\ ~IsCheckerConfig(args) /\ ~ProfileMissing(args)
          /\ ~args.guideline.is_none /\ args.guideline.items = <<>>)
        => rows = ListingCheckerRows(WithoutGuideline(args),
                                     working_analyzers)

(***************************************************************************)
(* C5 amended: a guideline selector present with an empty set is not a     *)
(* filter: outside the profile-list and checker-config modes the query     *)
(* lists the guidelines, one two-field row per described guideline with    *)
(* the rules occurring under it, produces no checker row and exits with    *)
(* zero, whatever profile, switches or details accompany it.               *)
(***************************************************************************)
C5_EmptyGuidelineListsGuidelines ==
    (Done /\ working_analyzers # <<>> /\ ~IsProfileList(args)
          /\ ~IsCheckerConfig(args)
          /\ ~args.guideline.is_none /\ args.guideline.items = <<>>)
        => /\ exit_code = 0
           /\ Len(rows) = Len(get_description("guideline"))
           /\ \A k \in DOMAIN rows :
                 /\ Len(rows[k]) = 2
                 /\ rows[k][1] = get_description("guideline")[k][1]
                 /\ rows[k][1] \notin Checkers
           /\ printed # <<>>

C5_Witness ==
    /\ Done /\ working_analyzers # <<>> /\ ~IsProfileList(args)
    /\ ~IsCheckerConfig(args)
    /\ ~args.guideline.is_none /\ args.guideline.items = <<>>
    /\ Len(rows) = 2
    /\ ListingCheckerRows(WithoutGuideline(args), working_analyzers) # <<>>

(***************************************************************************)
(* C6: with a non-empty requested set S, a checker or warning that passed  *)
(* the earlier stages is emitted iff it has a label fact (k, v) with k     *)
(* exactly 'guideline' or a key of the guideline descriptions, and v in S. *)
(***************************************************************************)
C6_GuidelineFilterIff ==
    (Done /\ CheckerListing /\ exit_code = 0 /\ args.guideline.items # <<>>)
        => LET S == Range(args.guideline.items)
               before == NamesOf(args,
                            QueryRows(WithoutGuideline(args)))
           IN NamesOf(args, rows) =
                 SelectSeq(before, LAMBDA n : Covers(n, S))

C6_Witness ==
    /\ Done /\ CheckerListing /\ exit_code = 0
    /\ args.guideline.items # <<>>
    /\ rows # <<>>
    /\ Len(rows) < Len(QueryRows(WithoutGuideline(args)))
    /\ \E n \in Range(NamesOf(args, rows)) : n \notin Checkers
    /\ CheckerNames # {}

(***************************************************************************)
(* C7: when a valid checker-listing query filters out every checker, the   *)
(* query is not an error and the renderer is still invoked, so a document  *)
(* is emitted in the chosen format.                                        *)
(***************************************************************************)
C7_EmptyResultIsRendered ==
    (Done /\ CheckerListing /\ ~ProfileMissing(args) /\ rows = <<>>)
        => /\ exit_code = 0
           /\ \E k \in DOMAIN printed :
                 printed[k] = ToStr(args.output_format, header, <<>>)

(***************************************************************************)
(* C8 as claimed: in checker-config mode the exit code is non-zero exactly *)
(* when zero backends were able to report options.                         *)
(***************************************************************************)
C8_ExitNonZeroIffNoneReported ==
    (Done /\ working_analyzers # <<>> /\ ~IsProfileList(args)
          /\ IsCheckerConfig(args))
        => (exit_code # 0
               <=> \A an \in Range(working_analyzers) : configs[an] = <<>>)

(***************************************************************************)
(* C8 amended: in checker-config mode every working analyzer is asked for  *)
(* its options; an analyzer that reports none is recorded as failed and    *)
(* skipped without stopping the remaining analyzers, whose options are     *)
(* still listed; the exit code is non-zero exactly when at least one       *)
(* working analyzer reported no options.                                   *)
(***************************************************************************)
C8_ExitNonZeroIffAnyFailed ==
    (Done /\ working_analyzers # <<>> /\ ~IsProfileList(args)
          /\ IsCheckerConfig(args))
        => LET failed == {an \in Range(working_analyzers) :
                              configs[an] = <<>>}
               reported == SelectSeq(working_analyzers,
                                     LAMBDA an : configs[an] # <<>>)
           IN /\ DOMAIN configs = Range(working_analyzers)
              /\ Range(analyzer_failures) = failed
              /\ Len(rows) = Len(reported)
              /\ \A k \in DOMAIN rows :
                    rows[k][1] = reported[k] \o ":" \o configs[reported[k]][1][1]
              /\ exit_code # 0 <=> failed # {}
              /\ rows # <<>> => printed # <<>>

C8_Witness ==
    /\ Done /\ working_analyzers = SupportedAnalyzers
    /\ ~IsProfileList(args) /\ IsCheckerConfig(args)
    /\ configs["clangsa"] = <<>>
    /\ configs["clang-tidy"] # <<>>
    /\ rows # <<>>
    /\ exit_code = 1

(***************************************************************************)
(* C9 as claimed: in every detailed row of the checker listing, warning    *)
(* rows included, the enabled-state column is a boolean for json and one   *)
(* of the markers '+' and '-' for rows, table and csv.                     *)
(***************************************************************************)
C9_StateColumnEveryRow ==
    (Done /\ CheckerListing /\ "details" \in args.present)
        => \A k \in DOMAIN rows :
              IF args.output_format = "json"
              THEN rows[k][1] \in {[bool |-> TRUE], [bool |-> FALSE]}
              ELSE rows[k][1] \in {[str |-> "+"], [str |-> "-"]}

(***************************************************************************)
(* C9 amended: in every detailed row of a catalog checker the              *)
(* enabled-state column is a boolean for json and one of the markers '+'   *)
(* and '-' for rows, table and csv, and agrees with the checker's resolved *)
(* state; the warning rows carry the empty string in that column in every  *)
(* format.                                                                 *)
(***************************************************************************)
C9_StateColumnCheckerRows ==
    (Done /\ CheckerListing /\ "details" \in args.present)
        => \A k \in DOMAIN rows :
              IF rows[k][2] \in Checkers
              THEN rows[k][1] =
                     (IF args.output_format = "json"
                      THEN [bool |-> Enabled(args, rows[k][2])]
                      ELSE [str |-> IF Enabled(args, rows[k][2])
                                    THEN "+" ELSE "-"])
              ELSE rows[k][1] = [str |-> ""]

C9_Witness ==
    /\ Done /\ CheckerListing /\ "details" \in args.present
    /\ args.output_format = "json"
    /\ \E k \in DOMAIN rows : rows[k][1] = [bool |-> FALSE]
    /\ \E k \in DOMAIN rows : rows[k][1] = [bool |-> TRUE]
    /\ \E k \in DOMAIN rows : rows[k][2] \notin Checkers

(***************************************************************************)
(* C10: in every listing mode every row has exactly as many fields as the  *)
(* header has columns: 6 for a detailed checker or warning row, 2 for      *)
(* detailed profile and option rows and for guideline rows, 1 otherwise.   *)
(***************************************************************************)
C10_RowWidthIsHeaderWidth ==
    LET width == IF working_analyzers # <<>> /\ ~IsProfileList(args)
                    /\ ~IsCheckerConfig(args)
                 THEN (IF IsGuidelineList(args) THEN 2
                       ELSE IF "details" \in args.present THEN 6 ELSE 1)
                 ELSE (IF "details" \in args.present THEN 2 ELSE 1)
    IN /\ \A k \in DOMAIN rows :
             Len(rows[k]) = Len(header) /\ Len(rows[k]) = width
       /\ \A p \in DOMAIN printed :
             "to_str" \in DOMAIN printed[p] =>
                 \A k \in DOMAIN printed[p].to_str[3] :
                     Len(printed[p].to_str[3][k]) = Len(printed[p].to_str[2])

C10_Witness ==
    /\ Done /\ CheckerListing /\ "details" \in args.present
    /\ Len(header) = 6
    /\ \E k \in DOMAIN rows : rows[k][2] \in Checkers
    /\ \E k \in DOMAIN rows : rows[k][2] \notin Checkers
    /\ printed # <<>>

====
